---- MODULE Spec2Model ----
(***************************************************************************)
(* Model of mcpml's tool resolution and invocation engine                  *)
(* (mcpml/mcp_server/tools.py), of the protocol handlers                   *)
(* (mcpml/mcp_server/server.py) and of the runtime agent                   *)
(* (mcpml/agent_integrations).                                             *)
(*                                                                         *)
(* Python values are modelled as follows:                                  *)
(*   - a dotted reference "a.b.c" is the sequence <<"a","b","c">>;         *)
(*   - **kwargs is a function from argument names to values;               *)
(*   - an exception is a record [exc, msg, detail];                        *)
(*   - the interpreter's import state is sys_path (a sequence of           *)
(*     directories) and sys_modules (module path -> directory it was       *)
(*     loaded from, or NotLoaded).                                         *)
(***************************************************************************)
EXTENDS Integers, Sequences, FiniteSets, TLC

VARIABLES
    config,        \* mcpml.config.mcpml.config: the module-level configuration
    serverConfig,  \* MCPMLServer.config: the configuration given to the server
    sys_path,      \* sys.path
    sys_modules,   \* sys.modules
    request,       \* the protocol request handled last
    outcome,       \* how the last call_tool ended
    invoked,       \* the implementations whose body ran during the last call_tool
                   \* (or during the last turn of the agent's run)
    frame,         \* locals of execute_tool's agent branch in the last call_tool
    listing,       \* how the last list_tools ended
    ref_path,      \* sys.path of the reference run (unresolvable tools never called)
    ref_modules,   \* sys.modules of the reference run
    ref_outcome,   \* how the last call_tool ends in the reference run
    agent,         \* the runtime agent a host program built with create_agent
    run,           \* that agent's run
    agents,        \* invocation -> the runtime agent it built (its local `agent`)
    runs,          \* invocation -> that agent's run
    serving,       \* MCPMLServer.run: the transport given and the state it led to
    inbox,         \* requests the server has received and not started to handle
    handling,      \* the request whose handler the event loop is executing
    handled,       \* requests whose handler has returned
    created        \* what the last create_agent of a host made, for which agent type

invocationVars == <<agents, runs>>
serverVars == <<serving, inbox, handling, handled>>

vars == <<config, serverConfig, sys_path, sys_modules, request, outcome,
          invoked, frame, listing, ref_path, ref_modules, ref_outcome, agent, run,
          agents, runs, serving, inbox, handling, handled, created>>

None == "None"
NotLoaded == "not-loaded"
Site == "site-packages"
Cwd == "cwd"

Range(s) == {s[i] : i \in 1..Len(s)}

-----------------------------------------------------------------------------
(* Python values and exceptions *)

Value(t, d) == [type |-> t, data |-> d]
IntVal == Value("int", "5")
StrVal == Value("str", "hello")
GoodDict == Value("dict", "score=1")
BadDict == Value("dict", "oops")
NoValue == Value("-", "-")

Exc(e, m, d) == [exc |-> e, msg |-> m, detail |-> d]
NoExc == Exc("-", "-", "-")

Return(v) == [kind |-> "return", value |-> v, error |-> NoExc]
Raise(e) == [kind |-> "raise", value |-> NoValue, error |-> e]
NoOutcome == [kind |-> "none", value |-> NoValue, error |-> NoExc]

-----------------------------------------------------------------------------
(* The modules on disk.  An implementation is a function definition: its   *)
(* parameters in order and what its body may do when it runs.              *)

\* The annotation of a parameter is inspect.Parameter.empty ("empty"), a
\* class (its name), or, in a module that starts with
\* "from __future__ import annotations", the text of the annotation: a str,
\* which inspect.signature does not evaluate.
Postponed(type) == "'" \o type \o "'"
PostponedAnnotations == {Postponed(t) : t \in {"int", "str", "float", "dict"}}

Param(n, ann, req) == [name |-> n, annotation |-> ann, required |-> req]

Function(params, behaviours) ==
    [kind |-> "function", params |-> params, behaviours |-> behaviours]

\* A class that inherits from MCPAgent (the base itself when base is TRUE).
AgentClass(base) ==
    [kind |-> IF base THEN "base" ELSE "agent", params |-> <<>>, behaviours |-> <<>>]

Class(validates) ==
    [kind |-> "class", params |-> <<>>,
     behaviours |-> IF validates THEN <<Return(GoodDict)>> ELSE <<>>]

SiteModules ==
    ( <<"mathlib">> :>
        ( "add" :> Function(<<Param("a", "int", TRUE), Param("b", "int", TRUE)>>,
                            <<Return(IntVal)>>)
       @@ "flaky" :> Function(<<Param("a", "empty", TRUE), Param("b", "float", FALSE)>>,
                            <<Return(StrVal), Raise(Exc("RuntimeError", "boom", "flaky"))>>)
       @@ "describe" :> Function(<<Param("tool_name", "str", TRUE)>>,
                            <<Return(StrVal)>>)
       @@ "score" :> Function(<<Param("a", "str", TRUE)>>,
                            <<Return(GoodDict), Return(BadDict)>>) ) )
 @@ ( <<"shadow">> :>
        ( "f" :> Function(<<Param("a", "int", TRUE)>>, <<Return(IntVal)>>) ) )
 @@ ( <<"schemas", "sentiment">> :>
        ( "SentimentAnalysisOutput" :> Class(TRUE) ) )
 @@ ( <<"lazy">> :>
        ( "tally" :> Function(<<Param("a", Postponed("int"), TRUE)>>, <<Return(IntVal)>>) ) )

CwdModules ==
    ( <<"localtools">> :>
        ( "greet" :> Function(<<Param("a", "str", TRUE), Param("b", "dict", FALSE)>>,
                              <<Return(StrVal)>>) ) )
 @@ ( <<"shadow">> :>
        ( "f" :> Function(<<Param("a", "str", TRUE), Param("b", "str", TRUE)>>,
                          <<Return(StrVal)>>) ) )
 @@ ( <<"planner_agent">> :> ( "Planner" :> AgentClass(FALSE) ) )
 @@ ( <<"agent_planner">> :> ( "OtherPlanner" :> AgentClass(FALSE) ) )
 @@ ( <<"helper_agent">> :>
        ( "assist" :> Function(<<Param("a", "str", TRUE)>>, <<Return(StrVal)>>) ) )
 @@ ( <<"writer_agent">> :> ( "MCPAgent" :> AgentClass(TRUE) ) )

\* The modules of the agents directory of the working directory.
AgentsModules ==
    ( <<"writer">> :> ( "Writer" :> AgentClass(FALSE) ) )

AgentsDir == "cwd/agents"
AgentTypesDir == "cwd/agent_types"

Disk(dir) ==
    IF dir = Site THEN SiteModules
    ELSE IF dir = Cwd THEN CwdModules
    ELSE IF dir = AgentsDir THEN AgentsModules
    ELSE <<>>

ModulePaths ==
    (DOMAIN SiteModules) \cup (DOMAIN CwdModules) \cup (DOMAIN AgentsModules)
        \cup {<<"nomodule">>}

-----------------------------------------------------------------------------
(* Optional[...] values: <<>> is None, <<x>> is x. *)

Nothing == <<>>
Some(x) == <<x>>
IsNone(o) == Len(o) = 0
Get(o) == o[1]

-----------------------------------------------------------------------------
(* The configuration (mcpml/config/mcpml.py). *)

\* The fields a ToolDefinition object has.
ToolDefinitionFields ==
    {"name", "description", "implementation", "type", "agent_type", "model",
     "instructions", "parameters", "output_schema", "mcp_servers", "tools"}

ToolDefinition(n, ty, impl, schema, servers, tools) ==
    [name |-> n, description |-> "about " \o n, implementation |-> impl,
     type |-> ty, agent_type |-> "simple", output_schema |-> schema,
     mcp_servers |-> servers, tools |-> tools]

FunctionTool(n, impl, schema) ==
    ToolDefinition(n, "function", Some(impl), schema, Nothing, Nothing)

AgentTool(n, servers, tools) ==
    ToolDefinition(n, "agent", Nothing, Nothing, servers, tools)

MCPServerDefinition(n, url, command) == [name |-> n, url |-> url, command |-> command]

MCPMLConfig(servers, tools) == [mcpServers |-> servers, tools |-> tools]

ConfiguredServers ==
    << MCPServerDefinition("web", "http://web/sse", ""),
       MCPServerDefinition("files", "", "npx") >>

\* A configuration that exercises every branch of the engine.
MainConfig ==
    MCPMLConfig(ConfiguredServers,
      << FunctionTool("add", <<"mathlib", "add">>, Nothing),
         FunctionTool("flaky", <<"mathlib", "flaky">>, Nothing),
         FunctionTool("describe", <<"mathlib", "describe">>, Nothing),
         FunctionTool("shade", <<"shadow", "f">>, Nothing),
         FunctionTool("broken", <<"nomodule", "f">>, Nothing),
         FunctionTool("nosym", <<"mathlib", "absent">>, Nothing),
         FunctionTool("score", <<"mathlib", "score">>,
                      Some(<<"schemas", "sentiment", "SentimentAnalysisOutput">>)),
         AgentTool("A", Nothing, Some(<<"B">>)),
         AgentTool("B", Some(<<>>), Some(<<"A">>)),
         AgentTool("solo", Some(<<"web">>), Some(<<>>)),
         AgentTool("open", Nothing, Nothing),
         AgentTool("selfish", Some(<<"files", "nosuch">>), Some(<<"selfish", "add">>)) >>)

\* A small configuration whose tools all resolve once the working directory
\* is on the search path.
LocalConfig ==
    MCPMLConfig(<<>>,
      << FunctionTool("add", <<"mathlib", "add">>, Nothing),
         FunctionTool("echo", <<"localtools", "greet">>, Nothing) >>)

\* A configuration with an implementation from a module whose annotations
\* are postponed.
AnnotatedConfig ==
    MCPMLConfig(<<>>,
      << FunctionTool("add", <<"mathlib", "add">>, Nothing),
         FunctionTool("tally", <<"lazy", "tally">>, Nothing) >>)

\* How a server comes up: the configuration the engine reads is the
\* module-level one, loaded from ./mcpml.yaml when the package is imported
\* (None when the file is absent); the server is handed its own.
Launches ==
    { <<Some(MainConfig), MainConfig>>, <<Some(LocalConfig), LocalConfig>>,
      <<Nothing, MainConfig>>, <<Some(LocalConfig), MainConfig>> }

MISSING == "missing"
ToolNames ==
    {MainConfig.tools[i].name : i \in 1..Len(MainConfig.tools)}
        \cup {LocalConfig.tools[i].name : i \in 1..Len(LocalConfig.tools)}
        \cup {MISSING}

-----------------------------------------------------------------------------
(* Module resolution. *)

\* str.rsplit('.', 1): the list [everything before the last dot, the last
\* component], or the one-element list [ref] when ref has no dot.
rsplit(ref) ==
    IF Len(ref) >= 2 THEN <<SubSeq(ref, 1, Len(ref) - 1), <<ref[Len(ref)]>> >>
    ELSE <<ref>>

Least(S) == CHOOSE i \in S : \A j \in S : i <= j

\* The entry of the search path at the first of the positions hits, or <<>>.
FirstHit(path, hits) == IF hits = {} THEN <<>> ELSE <<path[Least(hits)]>>

\* The first directory of the search path that holds the module, or <<>>.
FindOnPath(path, module) ==
    FirstHit(path, {i \in 1..Len(path) : module \in DOMAIN Disk(path[i])})

\* The module found in directory hit[1] is recorded in sys.modules.
Loaded(modules, module, hit) ==
    IF Len(hit) = 0
    THEN [found |-> FALSE, origin |-> NotLoaded, modules |-> modules]
    ELSE [found |-> TRUE, origin |-> hit[1],
          modules |-> [modules EXCEPT ![module] = hit[1]]]

\* importlib.import_module: an already imported module is returned from
\* sys.modules; otherwise the search path is walked in order.
import_module(path, modules, module) ==
    IF module \in DOMAIN modules /\ modules[module] # NotLoaded
    THEN [found |-> TRUE, origin |-> modules[module], modules |-> modules]
    ELSE Loaded(modules, module, FindOnPath(path, module))

\* sys.path after "if current_dir not in sys.path: sys.path.insert(0, current_dir)".
InsertCwd(path) == IF Cwd \in Range(path) THEN path ELSE <<Cwd>> \o path

\* What _import_module_from_string leaves: the module (ok) or the ImportError
\* it raises, and the search path as it now is.
Imported(path, module, attempt) ==
    IF attempt.found
    THEN [ok |-> TRUE, origin |-> attempt.origin, path |-> path,
          modules |-> attempt.modules, error |-> NoExc]
    ELSE [ok |-> FALSE, origin |-> NotLoaded, path |-> path,
          modules |-> attempt.modules,
          error |-> Exc("ImportError", "Could not import", module[1])]

\* The second try of _import_module_from_string, the working directory now
\* in front of the search path, where it stays.
import_from_cwd(path2, modules, module) ==
    Imported(path2, module, import_module(path2, modules, module))

\* The first try of _import_module_from_string decides whether there is a second.
import_retry(path, modules, module, first) ==
    IF first.found THEN Imported(path, module, first)
    ELSE import_from_cwd(InsertCwd(path), modules, module)

\* tools.py _import_module_from_string(module_path)
import_module_from_string(path, modules, module) ==
    import_retry(path, modules, module, import_module(path, modules, module))

\* getattr(module, name) on a module loaded from origin.
HasAttr(origin, module, name) == name \in DOMAIN Disk(origin)[module]
GetAttr(origin, module, name) == Disk(origin)[module][name]

\* next((t for t in tools if t.name == tool_name), None)
Lookup(tools, tool_name) ==
    IF \A i \in 1..Len(tools) : tools[i].name # tool_name THEN Nothing
    ELSE Some(tools[Least({i \in 1..Len(tools) : tools[i].name = tool_name})])

-----------------------------------------------------------------------------
(* Calling a Python function with keyword arguments only. *)

ParamNames(def) == {def.params[i].name : i \in 1..Len(def.params)}
RequiredNames(def) ==
    {def.params[i].name : i \in {j \in 1..Len(def.params) : def.params[j].required}}

\* A binding that lets a call with a required argument missing through.
BindUnchecked(def, kwargs) ==
    IF (DOMAIN kwargs) \ ParamNames(def) # {}
    THEN Raise(Exc("TypeError", "got an unexpected keyword argument", "bind"))
    ELSE NoOutcome

\* The binding the interpreter does before the body runs.
Bind(def, kwargs) ==
    IF (DOMAIN kwargs) \ ParamNames(def) # {}
    THEN Raise(Exc("TypeError", "got an unexpected keyword argument", "bind"))
    ELSE IF RequiredNames(def) \ (DOMAIN kwargs) # {}
    THEN Raise(Exc("TypeError", "missing required argument", "bind"))
    ELSE NoOutcome

\* What the body does on this run: choice picks one of its behaviours.
RunBody(def, choice) ==
    def.behaviours[IF choice <= Len(def.behaviours) THEN choice ELSE Len(def.behaviours)]

\* pydantic's schema_class.model_validate(result): an instance of the class
\* when the value has the class's shape, a ValidationError otherwise.
model_validate(cls, result) ==
    IF result = GoodDict \/ result.type = cls
    THEN Return(Value(cls, result.data))
    ELSE Raise(Exc("ValidationError", "validation error", cls))

-----------------------------------------------------------------------------
(* The agent factory (mcpml/agent_integrations/factory.py). *)

\* The directories _load_custom_agent_type looks at, and those of them that
\* exist on this disk.
SearchPaths == <<Cwd, AgentsDir, AgentTypesDir>>
ExistingDirs == {Cwd, AgentsDir}

\* for path in search_paths:
\*     if path not in sys.path and os.path.exists(path): sys.path.insert(0, path)
RECURSIVE insert_search_paths(_, _, _)
insert_search_paths(path, dirs, i) ==
    IF i > Len(dirs) THEN path
    ELSE insert_search_paths(IF dirs[i] \notin Range(path) /\ dirs[i] \in ExistingDirs
                             THEN <<dirs[i]>> \o path ELSE path,
                             dirs, i + 1)

\* The module names tried for an agent type, in order.  (The package agents
\* is the agents SDK, which openai.py has imported: agents.<type> is looked
\* for in it, not in the agents directory.)
possible_modules(agent_type) ==
    << <<agent_type \o "_agent">>, <<"agent_" \o agent_type>>, <<agent_type>>,
       <<"agents", agent_type>>, <<"agent_types", agent_type>> >>

\* The classes of a module that inherit from MCPAgent.
AgentClasses(origin, module) ==
    {n \in DOMAIN Disk(origin)[module] : Disk(origin)[module][n].kind = "agent"}

\* What the search leaves: the class it instantiated (found) in which
\* module, or the exception that left it, with sys.modules and sys.path.
Custom(found, modules, path, module, class, error) ==
    [found |-> found, modules |-> modules, path |-> path, module |-> module,
     class |-> class, error |-> error]

\* for name, obj in inspect.getmembers(module): the first member that is an
\* agent class is instantiated.
FirstClass(origin, module) == CHOOSE n \in AgentClasses(origin, module) : TRUE

\* The loop over the possible modules: a module that cannot be imported, or
\* that has no agent class, is passed over.  Only ImportError is caught:
\* importlib.import_module(None), for an agent_type that is None, raises
\* AttributeError, which leaves the loop.
RECURSIVE try_modules(_, _, _, _)
try_module(path, candidates, i, imp) ==
    IF imp.found /\ AgentClasses(imp.origin, candidates[i]) # {}
    THEN Custom(TRUE, imp.modules, path, candidates[i],
                FirstClass(imp.origin, candidates[i]), NoExc)
    ELSE try_modules(path, imp.modules, candidates, i + 1)

try_modules(path, modules, candidates, i) ==
    IF i > Len(candidates) THEN Custom(FALSE, modules, path, <<>>, "-", NoExc)
    ELSE IF candidates[i] = <<None>>
    THEN Custom(FALSE, modules, path, <<>>, "-",
                Exc("AttributeError", "'NoneType' object has no attribute", "startswith"))
    ELSE try_module(path, candidates, i, import_module(path, modules, candidates[i]))

\* The search ends with sys.path as the search left it.
kept(original_sys_path, path) == path

\* finally: sys.path = original_sys_path
restored(original_sys_path, path) == original_sys_path

searched(original_sys_path, custom) ==
    [custom EXCEPT !.path = restored(original_sys_path, @)]

\* _load_custom_agent_type(agent_type, ...): the search runs on the extended
\* search path; the finally clause puts the original sys.path back, so only
\* sys.modules can differ afterwards.
load_custom_agent_type(path, modules, agent_type) ==
    searched(path,
             try_modules(insert_search_paths(path, SearchPaths, 1), modules,
                         possible_modules(agent_type), 1))

-----------------------------------------------------------------------------
(* The runtime agent's constructor (mcpml/agent_integrations/openai.py). *)

\* A function tool of a runtime agent: the name the planner calls it by (the
\* name of the wrapped Python function), the registry tool it was made for,
\* and what a call of it runs.
BoundTool(name, tool, via, impl) == [name |-> name, tool |-> tool, via |-> via, impl |-> impl]

NoImplementation == [origin |-> NotLoaded, module |-> <<>>, name |-> "-"]

Added(ok, bound, modules, error) ==
    [ok |-> ok, bound |-> bound, modules |-> modules, error |-> error]

\* implementation = importlib.import_module(module)
\* tool_function = function_tool(getattr(implementation, function))
add_tool_imported(tool, module, function, imp) ==
    IF ~imp.found
    THEN Added(FALSE, <<>>, imp.modules,
               Exc("ModuleNotFoundError", "No module named", module[1]))
    ELSE IF ~HasAttr(imp.origin, module, function)
    THEN Added(FALSE, <<>>, imp.modules,
               Exc("AttributeError", "module has no attribute", function))
    ELSE Added(TRUE,
               <<BoundTool(function, tool.name, "implementation",
                           [origin |-> imp.origin, module |-> module, name |-> function])>>,
               imp.modules, NoExc)

\* module, function = tool.implementation.rsplit(".", 1)
add_tool_split(tool, parts, path, modules) ==
    IF Len(parts) # 2
    THEN Added(FALSE, <<>>, modules,
               Exc("ValueError", "not enough values to unpack", "implementation"))
    ELSE add_tool_imported(tool, parts[1], parts[2][1],
                           import_module(path, modules, parts[1]))

\* add_tool(tool): a tool with an implementation is bound to the
\* implementation itself; any other tool to a function invoke_agent(input).
add_tool(tool, path, modules) ==
    IF ~IsNone(tool.implementation)
    THEN add_tool_split(tool, rsplit(Get(tool.implementation)), path, modules)
    ELSE Added(TRUE, <<BoundTool("invoke_agent", tool.name, "invoke_agent", NoImplementation)>>,
               modules, NoExc)


\* What the constructor leaves: the agent's function tools and attached
\* servers, or the exception it raised.
Built(o, tools, servers, modules) ==
    [outcome |-> o, tools |-> tools, mcp_servers |-> servers, modules |-> modules]

\* for tool_name in tools: look the tool up in the module-level configuration
\* and add it; a name the configuration does not have raises ValueError.
RECURSIVE bind_from(_, _, _, _, _, _)
bind_step(cfg, names, i, path, acc, added) ==
    IF ~added.ok THEN Built(Raise(added.error), <<>>, <<>>, added.modules)
    ELSE bind_from(cfg, names, i + 1, path, added.modules, acc \o added.bound)

bind_found(cfg, names, i, path, modules, acc, found) ==
    IF IsNone(found)
    THEN Built(Raise(Exc("ValueError", "Tool not found", names[i])), <<>>, <<>>, modules)
    ELSE bind_step(cfg, names, i, path, acc, add_tool(Get(found), path, modules))

bind_from(cfg, names, i, path, modules, acc) ==
    IF i > Len(names) THEN Built(NoOutcome, acc, <<>>, modules)
    ELSE IF IsNone(cfg)
    THEN Built(Raise(Exc("AttributeError", "'NoneType' object has no attribute", "tools")),
               <<>>, <<>>, modules)
    ELSE bind_found(cfg, names, i, path, modules, acc, Lookup(Get(cfg).tools, names[i]))

\* self.tools = []; if(tools): for tool_name in tools: ...
init_tools(cfg, path, modules, tools) ==
    IF IsNone(tools) THEN Built(NoOutcome, <<>>, <<>>, modules)
    ELSE IF Len(Get(tools)) = 0 THEN Built(NoOutcome, <<>>, <<>>, modules)
    ELSE bind_from(cfg, Get(tools), 1, path, modules, <<>>)

\* A server with a url is attached over SSE, one with a command over stdio,
\* one with neither is not attached.
Attachable(server) == server.url # "" \/ server.command # ""
Attached(server) ==
    [name |-> server.name, type |-> IF server.url # "" THEN "sse" ELSE "stdio"]

\* if mcp_servers: for server in mcp_servers: ...
init_servers(servers) ==
    [i \in 1..Len(SelectSeq(servers, Attachable)) |->
        Attached(SelectSeq(servers, Attachable)[i])]

\* MCPOpenAIAgent.__init__: the tools are bound first, then the servers attached.
init_agent(bound, servers) ==
    IF bound.outcome.kind = "raise" THEN bound
    ELSE Built(NoOutcome, bound.tools, init_servers(servers), bound.modules)

MCPOpenAIAgent(cfg, path, modules, tools, servers) ==
    init_agent(init_tools(cfg, path, modules, tools), servers)

\* create_agent: no custom agent type found, the built-in agent is built
\* whatever agent_type says; a custom agent gets neither tools nor servers.
agent_created(cfg, path, custom, tools, servers) ==
    IF custom.error # NoExc THEN Built(Raise(custom.error), <<>>, <<>>, custom.modules)
    ELSE IF custom.found THEN Built(NoOutcome, <<>>, <<>>, custom.modules)
    ELSE MCPOpenAIAgent(cfg, path, custom.modules, tools, servers)

create_agent(cfg, path, modules, agent_type, servers, tools) ==
    agent_created(cfg, path, load_custom_agent_type(path, modules, agent_type),
                  tools, servers)

-----------------------------------------------------------------------------
(* The invocation engine (mcpml/mcp_server/tools.py). *)

NoFrame == [set |-> FALSE, mcp_servers |-> <<>>, tools |-> <<>>]
Frame(servers, tools) == [set |-> TRUE, mcp_servers |-> servers, tools |-> tools]

\* What a call leaves behind: how it ended, the import state, the
\* implementations whose body ran, the agent branch's locals.
Result(o, path, modules, ran, fr) ==
    [outcome |-> o, path |-> path, modules |-> modules, invoked |-> ran, frame |-> fr]

\* An implementation as getattr found it: the directory its module was
\* loaded from, the module, the symbol.
Implementation(origin, module, name) == [origin |-> origin, module |-> module, name |-> name]

\* The record of a body that ran: which implementation, and what it did.
Ran(impl, did) == [impl |-> impl, did |-> did]

\* The try block of "Handle output schema if specified", the schema module
\* imported (or not): a schema that cannot be loaded (ImportError,
\* AttributeError) is logged and the raw result kept; what model_validate
\* raises is not caught.
validate_output(cls, module, imp, result, ran) ==
    IF ~imp.ok THEN Result(Return(result), imp.path, imp.modules, ran, NoFrame)
    ELSE IF ~HasAttr(imp.origin, module, cls)
    THEN Result(Return(result), imp.path, imp.modules, ran, NoFrame)
    ELSE Result(model_validate(cls, result), imp.path, imp.modules, ran, NoFrame)

\* schema_module_path, schema_class_name = tool.output_schema.rsplit('.', 1)
split_output_schema(parts, result, path, modules, ran) ==
    IF Len(parts) # 2
    THEN Result(Raise(Exc("ValueError", "not enough values to unpack", "output_schema")),
                path, modules, ran, NoFrame)
    ELSE validate_output(parts[2][1], parts[1],
                         import_module_from_string(path, modules, parts[1]), result, ran)

\* if tool.output_schema: ...; return result
apply_output_schema(tool, result, path, modules, ran) ==
    IF IsNone(tool.output_schema) THEN Result(Return(result), path, modules, ran, NoFrame)
    ELSE split_output_schema(rsplit(Get(tool.output_schema)), result, path, modules, ran)

\* result = func(...) has run its body: a fault leaves execute_tool as it is,
\* a value goes on to the output schema.
function_ran(tool, impl, result, path, modules) ==
    IF result.kind = "raise" THEN Result(result, path, modules, {Ran(impl, result)}, NoFrame)
    ELSE apply_output_schema(tool, result.value, path, modules, {Ran(impl, result)})

\* result = func(...): the arguments are bound, then the body runs.
function_call(tool, impl, func, bound, choice, path, modules) ==
    IF bound.kind = "raise" THEN Result(bound, path, modules, {}, NoFrame)
    ELSE function_ran(tool, impl, RunBody(func, choice), path, modules)

\* func = getattr(module, function_name); result = func(...)
function_imported(tool, module, function_name, imp, kwargs, choice) ==
    IF ~imp.ok THEN Result(Raise(imp.error), imp.path, imp.modules, {}, NoFrame)
    ELSE IF ~HasAttr(imp.origin, module, function_name)
    THEN Result(Raise(Exc("AttributeError", "module has no attribute", function_name)),
                imp.path, imp.modules, {}, NoFrame)
    ELSE function_call(tool, Implementation(imp.origin, module, function_name),
                       GetAttr(imp.origin, module, function_name),
                       Bind(GetAttr(imp.origin, module, function_name), kwargs),
                       choice, imp.path, imp.modules)

\* module_path, function_name = tool.implementation.rsplit('.', 1)
function_split(tool, parts, path, modules, kwargs, choice) ==
    IF Len(parts) # 2
    THEN Result(Raise(Exc("ValueError", "not enough values to unpack", "implementation")),
                path, modules, {}, NoFrame)
    ELSE function_imported(tool, parts[1], parts[2][1],
                           import_module_from_string(path, modules, parts[1]),
                           kwargs, choice)

\* if tool.type == "function": ...
function_branch(tool, path, modules, kwargs, choice) ==
    IF IsNone(tool.implementation)
    THEN Result(Raise(Exc("AttributeError", "'NoneType' object has no attribute", "rsplit")),
                path, modules, {}, NoFrame)
    ELSE function_split(tool, rsplit(Get(tool.implementation)), path, modules, kwargs, choice)

\* server.name in tool.mcp_servers
ServerListed(tool, server) == server.name \in Range(Get(tool.mcp_servers))

\* An upstream scope that hands every agent all configured servers.
effective_mcp_servers_all(cfg, tool) == cfg.mcpServers

\* The effective upstream servers of an agent tool.
effective_mcp_servers(cfg, tool) ==
    IF IsNone(tool.mcp_servers) THEN cfg.mcpServers
    ELSE IF Len(Get(tool.mcp_servers)) > 0
    THEN LET Listed(server) == ServerListed(tool, server)
         IN  SelectSeq(cfg.mcpServers, Listed)
    ELSE <<>>

\* The names of all tools of the configuration, in order.
Names(tools) == [i \in 1..Len(tools) |-> tools[i].name]

\* A sibling scope in which a list is read like an absent one.
effective_tools_unlisted(cfg, tool) ==
    IF ~IsNone(tool.tools) /\ Len(Get(tool.tools)) = 0 THEN <<>>
    ELSE LET NotSelf(n) == n # tool.name IN SelectSeq(Names(cfg.tools), NotSelf)

\* A sibling scope in which an empty list is read like an absent one.
effective_tools_unscoped(cfg, tool) ==
    IF IsNone(tool.tools) \/ Len(Get(tool.tools)) = 0
    THEN LET NotSelf(n) == n # tool.name IN SelectSeq(Names(cfg.tools), NotSelf)
    ELSE LET Listed(n) == n \in Range(Get(tool.tools)) IN SelectSeq(Names(cfg.tools), Listed)

\* The effective sibling tools of an agent tool.
effective_tools(cfg, tool) ==
    IF IsNone(tool.tools)
    THEN LET NotSelf(n) == n # tool.name IN SelectSeq(Names(cfg.tools), NotSelf)
    ELSE IF Len(Get(tool.tools)) > 0
    THEN LET Listed(n) == n \in Range(Get(tool.tools)) IN SelectSeq(Names(cfg.tools), Listed)
    ELSE <<>>

\* agent = create_agent(...); result = agent.run(...): called from the
\* call_tool coroutine, run finds the event loop running.
agent_run(built, fr, path) ==
    IF built.outcome.kind = "raise" THEN Result(built.outcome, path, built.modules, {}, fr)
    ELSE Result(Raise(Exc("RuntimeError",
                          "asyncio.run() cannot be called from a running event loop",
                          "run")),
                path, built.modules, {}, fr)

\* "if tool.max_turns is not None" reads an attribute a ToolDefinition may
\* not have; past it the agent is built and run.
agent_scoped(cfg, tool, fr, path, modules, kwargs) ==
    IF "max_turns" \notin ToolDefinitionFields
    THEN Result(Raise(Exc("AttributeError", "object has no attribute", "max_turns")),
                path, modules, {}, fr)
    ELSE agent_run(create_agent(Some(cfg), path, modules, tool.agent_type,
                                fr.mcp_servers, Some(fr.tools)),
                   fr, path)

\* elif tool.type == "agent": ...
agent_branch(cfg, tool, path, modules, kwargs) ==
    agent_scoped(cfg, tool, Frame(effective_mcp_servers(cfg, tool), effective_tools(cfg, tool)),
                 path, modules, kwargs)

\* The tool looked up, execute_tool branches on its type.
dispatch(cfg, tool, path, modules, kwargs, choice) ==
    IF tool.type = "function" THEN function_branch(tool, path, modules, kwargs, choice)
    ELSE IF tool.type = "agent" THEN agent_branch(cfg, tool, path, modules, kwargs)
    ELSE Result(Raise(Exc("ValueError", "Unknown tool type", tool.type)),
                path, modules, {}, NoFrame)

\* tool = next(...); if not tool: raise ValueError
looked_up(cfg, found, path, modules, tool_name, kwargs, choice) ==
    IF IsNone(found)
    THEN Result(Raise(Exc("ValueError", "Tool not found", tool_name)),
                path, modules, {}, NoFrame)
    ELSE dispatch(cfg, Get(found), path, modules, kwargs, choice)

\* execute_tool(tool_name, **kwargs), cfg being the module-level config.
execute_tool(cfg, path, modules, tool_name, kwargs, choice) ==
    IF IsNone(cfg)
    THEN Result(Raise(Exc("AttributeError", "'NoneType' object has no attribute", "tools")),
                path, modules, {}, NoFrame)
    ELSE looked_up(Get(cfg), Lookup(Get(cfg).tools, tool_name), path, modules,
                   tool_name, kwargs, choice)

-----------------------------------------------------------------------------
(* The protocol handlers (mcpml/mcp_server/server.py). *)

\* call_tool(tool_name, parameters): return execute_tool(tool_name, **parameters).
\* A parameter named like execute_tool's own positional parameter cannot be
\* passed: the interpreter refuses the call before execute_tool's body runs.
call_tool(cfg, path, modules, tool_name, parameters, choice) ==
    IF "tool_name" \in DOMAIN parameters
    THEN Result(Raise(Exc("TypeError", "got multiple values for argument", "tool_name")),
                path, modules, {}, NoFrame)
    ELSE execute_tool(cfg, path, modules, tool_name, parameters, choice)

\* The type tag convert_to_mcp_schema gives a parameter annotation.
TypeTag(annotation) ==
    IF annotation = "empty" THEN "string"
    ELSE IF annotation = "str" THEN "string"
    ELSE IF annotation = "int" THEN "integer"
    ELSE IF annotation = "float" THEN "number"
    ELSE annotation

Schema(ok, schema, modules, error) ==
    [ok |-> ok, schema |-> schema, modules |-> modules, error |-> error]

\* schema[name] = {"type": ...} for each parameter of the implementation, as
\* the sequence of <<parameter, type>> items.
schema_of(params) ==
    [i \in 1..Len(params) |-> <<params[i].name, TypeTag(params[i].annotation)>>]

\* The loop over the parameters: the last branch reads
\* param.annotation.__name__, which an annotation that is a str does not have.
schema_from(params, modules) ==
    IF \E i \in 1..Len(params) : params[i].annotation \in PostponedAnnotations
    THEN Schema(FALSE, <<>>, modules,
                Exc("AttributeError", "'str' object has no attribute", "__name__"))
    ELSE Schema(TRUE, schema_of(params), modules, NoExc)

\* module = importlib.import_module(module_name): no second try here.
schema_imported(module, function_name, imp) ==
    IF ~imp.found
    THEN Schema(FALSE, <<>>, imp.modules,
                Exc("ModuleNotFoundError", "No module named", module[1]))
    ELSE IF ~HasAttr(imp.origin, module, function_name)
    THEN Schema(FALSE, <<>>, imp.modules,
                Exc("AttributeError", "module has no attribute", function_name))
    ELSE schema_from(GetAttr(imp.origin, module, function_name).params, imp.modules)

\* module_name, function_name = tool.implementation.rsplit(".", 1)
schema_split(parts, path, modules) ==
    IF Len(parts) # 2
    THEN Schema(FALSE, <<>>, modules,
                Exc("ValueError", "not enough values to unpack", "implementation"))
    ELSE schema_imported(parts[1], parts[2][1], import_module(path, modules, parts[1]))

\* convert_to_mcp_schema(tool)
convert_to_mcp_schema(tool, path, modules) ==
    IF tool.type = "function"
    THEN IF IsNone(tool.implementation)
         THEN Schema(FALSE, <<>>, modules,
                     Exc("AttributeError", "'NoneType' object has no attribute", "rsplit"))
         ELSE schema_split(rsplit(Get(tool.implementation)), path, modules)
    ELSE Schema(TRUE, << <<"input", "string">> >>, modules, NoExc)

NoListing == [kind |-> "none", tools |-> <<>>, error |-> NoExc]

ListResult(kind, tools, error, modules) ==
    [listing |-> [kind |-> kind, tools |-> tools, error |-> error], modules |-> modules]

Tool(tool, schema) ==
    [name |-> tool.name, description |-> tool.description, inputSchema |-> schema]

\* list_tools(): one Tool per tool of the server's configuration, in order;
\* the first schema that cannot be derived ends the whole listing.
RECURSIVE list_from(_, _, _, _, _)
list_step(tools, i, path, acc, s) ==
    IF ~s.ok THEN ListResult("raise", <<>>, s.error, s.modules)
    ELSE list_from(tools, i + 1, path, s.modules, Append(acc, Tool(tools[i], s.schema)))

list_from(tools, i, path, modules, acc) ==
    IF i > Len(tools) THEN ListResult("return", acc, NoExc, modules)
    ELSE list_step(tools, i, path, acc, convert_to_mcp_schema(tools[i], path, modules))

list_tools(cfg, path, modules) == list_from(cfg.tools, 1, path, modules, <<>>)

-----------------------------------------------------------------------------
(* The runtime agent's run (mcpml/agent_integrations/openai.py). *)

\* def run(self, max_turns:int=10, ...)
DefaultMaxTurns == 10

NoAgent ==
    [built |-> FALSE, outcome |-> NoOutcome, requested |-> Nothing,
     tools |-> <<>>, mcp_servers |-> <<>>]

\* A run: returned is what the tool called in the last turn gave back (none
\* when the last turn called no tool), result what the run itself ended with.
Run(state, max_turns, connected, result) ==
    [state |-> state, max_turns |-> max_turns, turns |-> 0, connected |-> connected,
     attempted |-> "-", calls |-> {}, returned |-> NoOutcome, result |-> result]

NoRun == Run("none", 0, {}, NoOutcome)

\* except Exception as e: return f"Error: {str(e)}"
ErrorString(msg) == Return(Value("str", "Error: " \o msg))

\* The servers connected so far when the first n connect calls have returned.
Connected(servers, n) == {servers[i].name : i \in 1..n}

\* run(max_turns, ...) up to the planner's first turn, the host not being in
\* an event loop: the attached servers are connected in order (fail_at is
\* the position of the first one whose connect raises, 0 when none does),
\* then Runner.run takes the remaining keyword arguments, of which it needs
\* input.  Whatever is raised ends the run with an "Error: ..." string.
start_run(ag, max_turns, kwargs, fail_at) ==
    IF fail_at >= 1 /\ fail_at <= Len(ag.mcp_servers)
    THEN Run("done", max_turns, Connected(ag.mcp_servers, fail_at - 1),
             ErrorString("connect"))
    ELSE IF DOMAIN kwargs # {"input"}
    THEN Run("done", max_turns, Connected(ag.mcp_servers, Len(ag.mcp_servers)),
             ErrorString("Runner.run() arguments"))
    ELSE Run("running", max_turns, Connected(ag.mcp_servers, Len(ag.mcp_servers)),
             NoOutcome)

\* run(max_turns, ...) is asyncio.run(self.run_async(...)): called by a host
\* that is itself running in an event loop (in_loop), asyncio.run raises
\* RuntimeError before the coroutine starts; otherwise the run starts.
InRunningLoop ==
    Raise(Exc("RuntimeError", "asyncio.run() cannot be called from a running event loop",
              "-"))

run_agent(ag, max_turns, kwargs, fail_at, in_loop) ==
    IF in_loop THEN Run("done", max_turns, {}, InRunningLoop)
    ELSE start_run(ag, max_turns, kwargs, fail_at)

\* What the planner can ask for in a turn: the final output, or a call of a
\* tool by name.
FinalOutput == "final_output"

Turned(r, ran) == [run |-> r, invoked |-> ran]

\* The run is over: run_async returns.
finished(r, name, result) ==
    Turned([r EXCEPT !.state = "done", !.turns = @ + 1, !.attempted = name,
                     !.returned = NoOutcome, !.result = result], {})

\* A call the agent made: the registry tool it was bound for and what the
\* call ran.
Call(bound) == [tool |-> bound.tool, via |-> bound.via]

\* The tool's function has returned or raised (did); the tool hands the
\* planner the value, or the fault as an error message, and the run goes on.
called(r, name, bound, ran, did) ==
    Turned([r EXCEPT !.turns = @ + 1, !.attempted = name,
                     !.calls = @ \cup {Call(bound)}, !.returned = did], ran)

\* A tool bound to the implementation: the implementation is called with the
\* planner's arguments; what it returns or raises goes back to the planner.
call_implementation(r, name, bound, func, args, choice) ==
    IF args.kind = "raise" THEN called(r, name, bound, {}, args)
    ELSE called(r, name, bound, {Ran(bound.impl, RunBody(func, choice))},
                RunBody(func, choice))

\* The function tool of that name: the tools are looked up in a dictionary
\* by name, where a later tool replaces an earlier one of the same name.
Greatest(S) == CHOOSE i \in S : \A j \in S : i >= j
Named(tools, name) == {i \in 1..Len(tools) : tools[i].name = name}

\* execute_tool(tool_name, **kwargs) called with two positional arguments.
TooManyPositional ==
    Raise(Exc("TypeError", "execute_tool() takes 1 positional argument but 2 were given",
              "input"))

\* invoke_agent(input) hands execute_tool the input as a second positional
\* argument, which execute_tool does not take: no body runs.
call_bound(r, name, bound, kwargs, choice) ==
    IF bound.via = "implementation"
    THEN call_implementation(r, name, bound,
                             GetAttr(bound.impl.origin, bound.impl.module, bound.impl.name),
                             Bind(GetAttr(bound.impl.origin, bound.impl.module,
                                          bound.impl.name), kwargs),
                             choice)
    ELSE called(r, name, bound, {}, TooManyPositional)

\* One turn of Runner.run: past max_turns the run ends with MaxTurnsExceeded;
\* a call of a name the agent has no tool for ends it with ModelBehaviorError.
turn(r, ag, name, kwargs, choice) ==
    IF r.turns + 1 > r.max_turns
    THEN Turned([r EXCEPT !.state = "done", !.returned = NoOutcome,
                          !.result = ErrorString("Max turns exceeded")], {})
    ELSE IF name = FinalOutput THEN finished(r, name, Return(StrVal))
    ELSE IF Named(ag.tools, name) = {}
    THEN finished(r, name, ErrorString("Tool not found in agent"))
    ELSE call_bound(r, name, ag.tools[Greatest(Named(ag.tools, name))], kwargs, choice)

-----------------------------------------------------------------------------
(* Several invocations at once, and the serving process, before anything    *)
(* has happened.                                                            *)

MaxInvocations == 2
Invocations == 1..MaxInvocations

NoAgents == [i \in Invocations |-> NoAgent]
NoRuns == [i \in Invocations |-> NoRun]

\* create_agent has not been called.
NoCreation ==
    [set |-> FALSE, agent_type |-> "-", outcome |-> NoOutcome, via |-> "-",
     module |-> <<>>, class |-> "-"]

\* MCPMLServer.run has not been called.
Serving(state, transport) == [state |-> state, transport |-> transport]
NotStarted == Serving("NotStarted", "-")

\* No handler is executing.
Idle == [id |-> 0, op |-> "none", name |-> "-"]

-----------------------------------------------------------------------------
(* The requests a client can send. *)

MaxBehaviours == 2

ArgValue == "x"

KeySets ==
    { {}, {"a"}, {"a", "b"}, {"a", "b", "c"}, {"tool_name"} }

Arguments == {[k \in K |-> ArgValue] : K \in KeySets}

NoRequest == [op |-> "none", name |-> "-", keys |-> {}]

\* An implementation reference that can be loaded from no directory: the
\* module is nowhere, or no copy of it has the symbol.
NowhereLoadable(parts) ==
    /\ Len(parts) = 2
    /\ \A dir \in {Site, Cwd} :
          \/ parts[1] \notin DOMAIN Disk(dir)
          \/ ~HasAttr(dir, parts[1], parts[2][1])

UnresolvableTool(found) ==
    /\ ~IsNone(found)
    /\ Get(found).type = "function"
    /\ ~IsNone(Get(found).implementation)
    /\ NowhereLoadable(rsplit(Get(Get(found).implementation)))

\* A function tool of the configuration whose implementation cannot be loaded.
Unresolvable(cfg, tool_name) ==
    /\ ~IsNone(cfg)
    /\ UnresolvableTool(Lookup(Get(cfg).tools, tool_name))

-----------------------------------------------------------------------------
(* What a call leaves of the registry. *)

\* The scope taken out of the registry's own list, as tools.remove or a
\* slice assignment on the alias of config.tools would do.
registry_filtered(registry, fr) ==
    IF fr.set THEN SelectSeq(registry, LAMBDA t : t.name \in Range(fr.tools))
    ELSE registry

\* tools = config.tools makes the local name tools an alias of the registry's
\* list.  The lookup and the two scopes only read it: each scope is a list
\* comprehension, a new list to which the local name is then bound, and
\* kwargs is the call's own dictionary.  The list is left as it was.
registry_after(registry, fr) == registry

\* The module-level configuration after execute_tool.
config_after(cfg, fr) ==
    IF IsNone(cfg) THEN cfg
    ELSE Some([Get(cfg) EXCEPT !.tools = registry_after(@, fr)])

-----------------------------------------------------------------------------
(* The state machine. *)

Init ==
    /\ \E launch \in Launches : config = launch[1] /\ serverConfig = launch[2]
    /\ sys_path \in {<<Site>>, <<Site, Cwd>>, <<Cwd, Site>>}
    /\ sys_modules = [m \in ModulePaths |-> NotLoaded]
    /\ request = NoRequest
    /\ outcome = NoOutcome
    /\ invoked = {}
    /\ frame = NoFrame
    /\ listing = NoListing
    /\ ref_path = sys_path
    /\ ref_modules = sys_modules
    /\ ref_outcome = NoOutcome
    /\ agent = NoAgent
    /\ run = NoRun
    /\ agents = NoAgents
    /\ runs = NoRuns
    /\ serving = NotStarted
    /\ inbox = {}
    /\ handling = Idle
    /\ handled = {}
    /\ created = NoCreation

\* The server handles one call_tool request, start to end: r is what
\* call_tool leaves behind, ref what it leaves in the reference run.
CallTool(tool_name, parameters, r, ref) ==
    /\ request' = [op |-> "call", name |-> tool_name, keys |-> DOMAIN parameters]
    /\ outcome' = r.outcome
    /\ sys_path' = r.path
    /\ sys_modules' = r.modules
    /\ invoked' = r.invoked
    /\ frame' = r.frame
    /\ ref_path' = ref.path
    /\ ref_modules' = ref.modules
    /\ ref_outcome' = ref.outcome
    /\ config' = config_after(config, r.frame)
    /\ UNCHANGED <<serverConfig, listing, agent, run>>
    /\ UNCHANGED <<invocationVars, serverVars>>
    /\ UNCHANGED created

\* The reference run handles the request unless it names an unresolvable tool.
reference_call(tool_name, parameters, choice) ==
    IF Unresolvable(config, tool_name)
    THEN Result(NoOutcome, ref_path, ref_modules, {}, NoFrame)
    ELSE call_tool(config, ref_path, ref_modules, tool_name, parameters, choice)

\* The configuration without its unresolvable tools.
WithoutUnresolvable(cfg) ==
    LET Resolvable(tool) == ~UnresolvableTool(Some(tool))
    IN  [cfg EXCEPT !.tools = SelectSeq(cfg.tools, Resolvable)]

\* The server handles one list_tools request, start to end: r is what
\* list_tools leaves behind, ref what it leaves in the reference run.
ListTools(r, ref) ==
    /\ request' = [op |-> "list", name |-> "-", keys |-> {}]
    /\ listing' = r.listing
    /\ sys_modules' = r.modules
    /\ ref_modules' = ref.modules
    /\ UNCHANGED <<config, serverConfig, sys_path, outcome, invoked, frame,
                   ref_path, ref_outcome, agent, run>>
    /\ UNCHANGED <<invocationVars, serverVars>>
    /\ UNCHANGED created

Next ==
    \/ \E tool_name \in ToolNames, parameters \in Arguments, choice \in 1..MaxBehaviours :
          CallTool(tool_name, parameters,
                   call_tool(config, sys_path, sys_modules, tool_name, parameters, choice),
                   reference_call(tool_name, parameters, choice))
    \/ ListTools(list_tools(serverConfig, sys_path, sys_modules),
                 list_tools(WithoutUnresolvable(serverConfig), ref_path, ref_modules))

Spec == Init /\ [][Next]_vars

-----------------------------------------------------------------------------
(* A host program that uses the agent factory directly. *)

MaxTurnsGiven == 2

\* The max_turns a host passes to run: none, or a small number.
MaxTurnsArguments == {Nothing} \cup {Some(n) : n \in 1..MaxTurnsGiven}

\* The tools argument of create_agent: absent, what execute_tool computes for
\* the agent tools of MainConfig, and a few lists besides.
AgentTools(cfg) == SelectSeq(cfg.tools, LAMBDA t : t.type = "agent")
ToolLists ==
    {Nothing}
        \cup {Some(effective_tools(MainConfig, AgentTools(MainConfig)[i])) :
                i \in 1..Len(AgentTools(MainConfig))}
        \cup {Some(<<"add", "flaky">>), Some(<<"shade">>), Some(<<"echo">>)}

ServerLists == {<<>>, ConfiguredServers}

RunArguments == {[k \in K |-> ArgValue] : K \in {{"input"}, {"a"}}}

\* The names a planner may try to call.
PlannerCalls == {"add", "flaky", "f", "shade", "greet", "invoke_agent", "B", FinalOutput}

InitAgent ==
    /\ config \in {Some(MainConfig), Some(LocalConfig), Nothing}
    /\ serverConfig = MainConfig
    /\ sys_path \in {<<Site>>, <<Site, Cwd>>, <<Cwd, Site>>}
    /\ sys_modules = [m \in ModulePaths |-> NotLoaded]
    /\ request = NoRequest
    /\ outcome = NoOutcome
    /\ invoked = {}
    /\ frame = NoFrame
    /\ listing = NoListing
    /\ ref_path = sys_path
    /\ ref_modules = sys_modules
    /\ ref_outcome = NoOutcome
    /\ agent = NoAgent
    /\ run = NoRun
    /\ agents = NoAgents
    /\ runs = NoRuns
    /\ serving = NotStarted
    /\ inbox = {}
    /\ handling = Idle
    /\ handled = {}
    /\ created = NoCreation

\* agent = create_agent(tools=tools, mcp_servers=servers): b is what the
\* factory leaves behind.
CreateAgent(tools, servers, b) ==
    /\ run.state # "running"
    /\ agent' = [built |-> b.outcome.kind # "raise", outcome |-> b.outcome,
                 requested |-> tools, tools |-> b.tools, mcp_servers |-> b.mcp_servers]
    /\ sys_modules' = b.modules
    /\ run' = NoRun
    /\ invoked' = {}
    /\ UNCHANGED <<config, serverConfig, sys_path, request, outcome, frame, listing,
                   ref_path, ref_modules, ref_outcome>>
    /\ UNCHANGED <<invocationVars, serverVars>>
    /\ UNCHANGED created

\* agent.run(...) starts: r is the run as run_agent leaves it.
RunAgent(r) ==
    /\ agent.built
    /\ run.state # "running"
    /\ run' = r
    /\ invoked' = {}
    /\ UNCHANGED <<config, serverConfig, sys_path, sys_modules, request, outcome, frame,
                   listing, ref_path, ref_modules, ref_outcome, agent>>
    /\ UNCHANGED <<invocationVars, serverVars>>
    /\ UNCHANGED created

\* The planner takes a turn: t is what the turn leaves behind.
Turn(t) ==
    /\ run.state = "running"
    /\ run' = t.run
    /\ invoked' = t.invoked
    /\ UNCHANGED <<config, serverConfig, sys_path, sys_modules, request, outcome, frame,
                   listing, ref_path, ref_modules, ref_outcome, agent>>
    /\ UNCHANGED <<invocationVars, serverVars>>
    /\ UNCHANGED created

MaxTurnsOf(arg) == IF IsNone(arg) THEN DefaultMaxTurns ELSE Get(arg)

NextAgent ==
    \/ \E tools \in ToolLists, servers \in ServerLists :
          CreateAgent(tools, servers,
                      create_agent(config, sys_path, sys_modules, "simple", servers, tools))
    \/ \E max_turns \in MaxTurnsArguments, kwargs \in RunArguments,
          fail_at \in 0..Len(ConfiguredServers), in_loop \in BOOLEAN :
          RunAgent(run_agent(agent, MaxTurnsOf(max_turns), kwargs, fail_at, in_loop))
    \/ \E name \in PlannerCalls, kwargs \in Arguments, choice \in 1..MaxBehaviours :
          Turn(turn(run, agent, name, kwargs, choice))

SpecAgent == InitAgent /\ [][NextAgent]_vars

-----------------------------------------------------------------------------
(* A host that serves several invocations of agent tools at once in one     *)
(* event loop.  Each invocation does what execute_tool does for an agent    *)
(* tool, agent = create_agent(...) and then the run, awaiting run_async so  *)
(* that the runs interleave turn by turn.                                   *)

\* The sibling tools an invocation's agent is built for, and its servers.
InvocationTools == {Some(<<"add">>), Some(<<"B">>)}
InvocationServers == {ConfiguredServers}

\* The instance the constructor leaves behind: self.mcp_servers = {} and
\* self.tools = [] are new objects of this instance, filled by the constructor.
Instance(tools, b) ==
    [built |-> b.outcome.kind # "raise", outcome |-> b.outcome, requested |-> tools,
     tools |-> b.tools, mcp_servers |-> b.mcp_servers]

\* Every instance shares one tools list and one servers dict, as it would
\* with class-level attributes.
instantiate_shared(objs, i, ag) == [j \in DOMAIN objs |-> ag]

\* agent = create_agent(...): the instance is bound to the local variable
\* agent of this invocation's call of execute_tool, and to nothing else.
instantiate(objs, i, ag) == [objs EXCEPT ![i] = ag]

InitConcurrent ==
    /\ config = Some(MainConfig)
    /\ serverConfig = MainConfig
    /\ sys_path \in {<<Site>>, <<Site, Cwd>>}
    /\ sys_modules = [m \in ModulePaths |-> NotLoaded]
    /\ request = NoRequest
    /\ outcome = NoOutcome
    /\ invoked = {}
    /\ frame = NoFrame
    /\ listing = NoListing
    /\ ref_path = sys_path
    /\ ref_modules = sys_modules
    /\ ref_outcome = NoOutcome
    /\ agent = NoAgent
    /\ run = NoRun
    /\ agents = NoAgents
    /\ runs = NoRuns
    /\ serving = NotStarted
    /\ inbox = {}
    /\ handling = Idle
    /\ handled = {}
    /\ created = NoCreation

\* Invocation i builds its agent: b is what the factory leaves behind.
Construct(i, tools, b) ==
    /\ ~agents[i].built
    /\ runs[i].state = "none"
    /\ agents' = instantiate(agents, i, Instance(tools, b))
    /\ sys_modules' = b.modules
    /\ UNCHANGED <<config, serverConfig, sys_path, request, outcome, invoked, frame,
                   listing, ref_path, ref_modules, ref_outcome, agent, run, runs>>
    /\ UNCHANGED serverVars
    /\ UNCHANGED created

\* Invocation i awaits its agent's run_async: r is the run as start_run
\* leaves it.
StartRun(i, r) ==
    /\ agents[i].built
    /\ runs[i].state = "none"
    /\ runs' = [runs EXCEPT ![i] = r]
    /\ UNCHANGED <<config, serverConfig, sys_path, sys_modules, request, outcome,
                   invoked, frame, listing, ref_path, ref_modules, ref_outcome,
                   agent, run, agents>>
    /\ UNCHANGED serverVars
    /\ UNCHANGED created

\* The planner of invocation i's run takes a turn: t is what it leaves behind.
Step(i, t) ==
    /\ runs[i].state = "running"
    /\ runs' = [runs EXCEPT ![i] = t.run]
    /\ UNCHANGED <<config, serverConfig, sys_path, sys_modules, request, outcome,
                   invoked, frame, listing, ref_path, ref_modules, ref_outcome,
                   agent, run, agents>>
    /\ UNCHANGED serverVars
    /\ UNCHANGED created

\* Invocation i returns its run's result: its agent and run are gone.
Return_(i) ==
    /\ runs[i].state = "done"
    /\ agents' = [agents EXCEPT ![i] = NoAgent]
    /\ runs' = [runs EXCEPT ![i] = NoRun]
    /\ UNCHANGED <<config, serverConfig, sys_path, sys_modules, request, outcome,
                   invoked, frame, listing, ref_path, ref_modules, ref_outcome,
                   agent, run>>
    /\ UNCHANGED serverVars
    /\ UNCHANGED created

InputOnly == [k \in {"input"} |-> ArgValue]
SumArguments == [k \in {"a", "b"} |-> ArgValue]

NextConcurrent ==
    \/ \E i \in Invocations, tools \in InvocationTools, servers \in InvocationServers :
          Construct(i, tools,
                    create_agent(config, sys_path, sys_modules, "simple", servers, tools))
    \/ \E i \in Invocations, fail_at \in {0, Len(ConfiguredServers)} :
          StartRun(i, start_run(agents[i], MaxTurnsGiven, InputOnly, fail_at))
    \/ \E i \in Invocations, name \in {"add", "invoke_agent", FinalOutput} :
          Step(i, turn(runs[i], agents[i], name, SumArguments, 1))
    \/ \E i \in Invocations : Return_(i)

SpecConcurrent == InitConcurrent /\ [][NextConcurrent]_vars

-----------------------------------------------------------------------------
(* The serving process (MCPMLServer.run and the event loop it starts).      *)

\* TRANSPORTS = Literal["stdio", "sse"]
TRANSPORTS == {"stdio", "sse"}

\* What the command line can hand to run: --transport takes any string.
Transports == TRANSPORTS \cup {"http"}

ServingStates == {"StdioServing", "StreamServing"}

\* run without its check of the transport: whatever is not stdio is served
\* over sse.
MCPMLServer_run_unvalidated(transport) ==
    IF transport = "stdio" THEN Serving("StdioServing", transport)
    ELSE Serving("StreamServing", transport)

\* MCPMLServer.run(transport): ValueError for an unknown transport, else
\* asyncio.run of run_stdio_async or of run_sse_async.
MCPMLServer_run(transport) ==
    IF transport \notin TRANSPORTS THEN Serving("Rejected", transport)
    ELSE IF transport = "stdio" THEN Serving("StdioServing", transport)
    ELSE Serving("StreamServing", transport)

MaxRequests == 2

\* The requests a client sends while the process serves.
Inbound(id) ==
    {[id |-> id, op |-> "list", name |-> "-"]}
        \cup {[id |-> id, op |-> "call", name |-> n] : n \in {"add", "flaky", "A"}}

ParametersOf(name) == IF name = "A" THEN [k \in {} |-> ArgValue] ELSE SumArguments

Received == Cardinality(inbox \cup handled) + (IF handling = Idle THEN 0 ELSE 1)

\* The configurations the serving process is started with.
ServerLaunches ==
    { <<Some(MainConfig), MainConfig>>, <<Some(AnnotatedConfig), AnnotatedConfig>> }

InitServer ==
    /\ \E launch \in ServerLaunches : config = launch[1] /\ serverConfig = launch[2]
    /\ sys_path \in {<<Site>>, <<Site, Cwd>>}
    /\ sys_modules = [m \in ModulePaths |-> NotLoaded]
    /\ request = NoRequest
    /\ outcome = NoOutcome
    /\ invoked = {}
    /\ frame = NoFrame
    /\ listing = NoListing
    /\ ref_path = sys_path
    /\ ref_modules = sys_modules
    /\ ref_outcome = NoOutcome
    /\ agent = NoAgent
    /\ run = NoRun
    /\ agents = NoAgents
    /\ runs = NoRuns
    /\ serving = NotStarted
    /\ inbox = {}
    /\ handling = Idle
    /\ handled = {}
    /\ created = NoCreation

\* run_server calls server.run(transport), once: s is where run leads.
RunServer(s) ==
    /\ serving = NotStarted
    /\ serving' = s
    /\ UNCHANGED <<config, serverConfig, sys_path, sys_modules, request, outcome,
                   invoked, frame, listing, ref_path, ref_modules, ref_outcome,
                   agent, run, inbox, handling, handled>>
    /\ UNCHANGED invocationVars
    /\ UNCHANGED created

\* A request arrives on the transport.
Receive(q) ==
    /\ serving.state \in ServingStates
    /\ q.id = Received + 1
    /\ q.id <= MaxRequests
    /\ inbox' = inbox \cup {q}
    /\ UNCHANGED <<config, serverConfig, sys_path, sys_modules, request, outcome,
                   invoked, frame, listing, ref_path, ref_modules, ref_outcome,
                   agent, run, serving, handling, handled>>
    /\ UNCHANGED invocationVars
    /\ UNCHANGED created

\* The event loop starts the handler of a received request.  The handlers
\* are coroutines that await nothing: call_tool calls execute_tool, and
\* through it the function's body or agent.run, as plain calls.  The loop's
\* one thread therefore stays in a handler from its start to its return, and
\* starts the next one only after that.
Dispatch(q) ==
    /\ q \in inbox
    /\ handling = Idle
    /\ handling' = q
    /\ inbox' = inbox \ {q}
    /\ UNCHANGED <<config, serverConfig, sys_path, sys_modules, request, outcome,
                   invoked, frame, listing, ref_path, ref_modules, ref_outcome,
                   agent, run, serving, handled>>
    /\ UNCHANGED invocationVars
    /\ UNCHANGED created

\* The call_tool handler under way returns: r is what call_tool leaves behind.
ReturnCall(r) ==
    /\ handling.op = "call"
    /\ request' = [op |-> "call", name |-> handling.name,
                   keys |-> DOMAIN ParametersOf(handling.name)]
    /\ outcome' = r.outcome
    /\ sys_path' = r.path
    /\ sys_modules' = r.modules
    /\ invoked' = r.invoked
    /\ frame' = r.frame
    /\ handled' = handled \cup {handling}
    /\ handling' = Idle
    /\ config' = config_after(config, r.frame)
    /\ UNCHANGED <<serverConfig, listing, ref_path, ref_modules, ref_outcome,
                   agent, run, serving, inbox>>
    /\ UNCHANGED invocationVars
    /\ UNCHANGED created

\* The list_tools handler under way returns: r is what list_tools leaves behind.
ReturnList(r) ==
    /\ handling.op = "list"
    /\ request' = [op |-> "list", name |-> "-", keys |-> {}]
    /\ listing' = r.listing
    /\ sys_modules' = r.modules
    /\ handled' = handled \cup {handling}
    /\ handling' = Idle
    /\ UNCHANGED <<config, serverConfig, sys_path, outcome, invoked, frame,
                   ref_path, ref_modules, ref_outcome, agent, run, serving, inbox>>
    /\ UNCHANGED invocationVars
    /\ UNCHANGED created

\* The transport closes: the coroutine run started ends, and with it run.
\* The loop notices only between handlers.
Shutdown ==
    /\ serving.state \in ServingStates
    /\ handling = Idle
    /\ serving' = Serving("Stopped", serving.transport)
    /\ UNCHANGED <<config, serverConfig, sys_path, sys_modules, request, outcome,
                   invoked, frame, listing, ref_path, ref_modules, ref_outcome,
                   agent, run, inbox, handling, handled>>
    /\ UNCHANGED invocationVars
    /\ UNCHANGED created

NextServer ==
    \/ \E transport \in Transports : RunServer(MCPMLServer_run(transport))
    \/ \E id \in 1..MaxRequests : \E q \in Inbound(id) : Receive(q)
    \/ \E q \in inbox : Dispatch(q)
    \/ \E choice \in 1..MaxBehaviours :
          ReturnCall(call_tool(config, sys_path, sys_modules, handling.name,
                               ParametersOf(handling.name), choice))
    \/ ReturnList(list_tools(serverConfig, sys_path, sys_modules))
    \/ Shutdown

SpecServer == InitServer /\ [][NextServer]_vars

-----------------------------------------------------------------------------
(* A host that asks the factory for agents of several types.                *)

\* The agent_type arguments: the built-in type, types with modules in the
\* working directory or in its agents directory, a type nobody knows, and
\* None, the agent_type of a tool definition that does not give one.
AgentTypes == {"simple", "planner", "helper", "writer", "unknown", None}

FactoryTools == {Nothing, Some(<<"add">>), Some(<<"shade">>)}

\* What create_agent made: the custom class instantiated, the built-in agent,
\* or nothing when it raised.
Creation(agent_type, custom, b) ==
    [set |-> TRUE, agent_type |-> agent_type, outcome |-> b.outcome,
     via |-> IF b.outcome.kind = "raise" THEN "-"
             ELSE IF custom.found THEN "custom" ELSE "builtin",
     module |-> custom.module, class |-> custom.class]

InitFactory ==
    /\ config = Some(MainConfig)
    /\ serverConfig = MainConfig
    /\ sys_path \in {<<Site>>, <<Site, Cwd>>, <<Cwd, Site>>}
    /\ sys_modules = [m \in ModulePaths |-> NotLoaded]
    /\ request = NoRequest
    /\ outcome = NoOutcome
    /\ invoked = {}
    /\ frame = NoFrame
    /\ listing = NoListing
    /\ ref_path = sys_path
    /\ ref_modules = sys_modules
    /\ ref_outcome = NoOutcome
    /\ agent = NoAgent
    /\ run = NoRun
    /\ agents = NoAgents
    /\ runs = NoRuns
    /\ serving = NotStarted
    /\ inbox = {}
    /\ handling = Idle
    /\ handled = {}
    /\ created = NoCreation

\* create_agent(agent_type=..., tools=...): custom is what
\* _load_custom_agent_type leaves behind, b what create_agent does.
CreateKind(agent_type, custom, b) ==
    /\ created' = Creation(agent_type, custom, b)
    /\ sys_path' = custom.path
    /\ sys_modules' = b.modules
    /\ UNCHANGED <<config, serverConfig, request, outcome, invoked, frame, listing,
                   ref_path, ref_modules, ref_outcome, agent, run>>
    /\ UNCHANGED <<invocationVars, serverVars>>

NextFactory ==
    \E agent_type \in AgentTypes, tools \in FactoryTools :
        CreateKind(agent_type,
                   load_custom_agent_type(sys_path, sys_modules, agent_type),
                   create_agent(config, sys_path, sys_modules, agent_type, <<>>, tools))

SpecFactory == InitFactory /\ [][NextFactory]_vars

-----------------------------------------------------------------------------
(* Vocabulary of the properties. *)

\* The registry the engine reads.
Registry == IF IsNone(config) THEN <<>> ELSE Get(config).tools
InRegistry(tool_name) == ~IsNone(Lookup(Registry, tool_name))
RegistryTool(tool_name) == Get(Lookup(Registry, tool_name))

\* The last request was a call_tool on a tool of the registry of that type.
CalledTool(type) ==
    /\ request.op = "call"
    /\ InRegistry(request.name)
    /\ RegistryTool(request.name).type = type

\* The error kinds of the engine, as the exceptions that carry them.
IsNotFound(o) ==
    o.kind = "raise" /\ o.error.exc = "ValueError" /\ o.error.msg = "Tool not found"
IsResolutionError(o) ==
    /\ o.kind = "raise"
    /\ \/ o.error.exc = "ImportError" /\ o.error.msg = "Could not import"
       \/ o.error.exc = "AttributeError" /\ o.error.msg = "module has no attribute"
IsBindingError(o) ==
    /\ o.kind = "raise"
    /\ o.error.exc = "TypeError"
    /\ o.error.msg \in {"got an unexpected keyword argument", "missing required argument",
                        "got multiple values for argument"}
IsTurnLimitExceeded(o) ==
    \/ o.kind = "raise" /\ o.error.exc = "MaxTurnsExceeded"
    \/ o.kind = "return" /\ o.value = Value("str", "Error: Max turns exceeded")

\* The implementation the tool's reference resolves to in the current import
\* state, as <<definition>>, or <<>> when it does not resolve.
ResolvedIn(imp, module, function_name) ==
    IF imp.ok /\ HasAttr(imp.origin, module, function_name)
    THEN <<GetAttr(imp.origin, module, function_name)>>
    ELSE <<>>
ResolvedParts(parts) ==
    IF Len(parts) # 2 THEN <<>>
    ELSE ResolvedIn(import_module_from_string(sys_path, sys_modules, parts[1]),
                    parts[1], parts[2][1])
Resolved(tool) ==
    IF IsNone(tool.implementation) THEN <<>>
    ELSE ResolvedParts(rsplit(Get(tool.implementation)))

-----------------------------------------------------------------------------
(* C1 *)

\* C1: a call_tool on a name that no tool of the (loaded) registry has ends
\* with the NotFound failure, whatever the arguments, and neither an
\* implementation body nor the agent branch has run.
C1_UnknownToolIsNotFound ==
    (request.op = "call" /\ ~IsNone(config) /\ ~InRegistry(request.name))
        => (IsNotFound(outcome) /\ invoked = {} /\ ~frame.set)

-----------------------------------------------------------------------------
(* C2 *)

\* The last call was on a function tool that resolves and declares no output
\* schema, with exactly the required arguments of its implementation.
ExactCall ==
    /\ CalledTool("function")
    /\ IsNone(RegistryTool(request.name).output_schema)
    /\ Len(Resolved(RegistryTool(request.name))) = 1
    /\ request.keys = RequiredNames(Resolved(RegistryTool(request.name))[1])

\* C2: a call_tool on a function tool that resolves and declares no output
\* schema, with exactly the required arguments, runs the implementation's
\* body once and ends the way the body ended: the value it returned, unchanged.
C2_RawResultReturned ==
    ExactCall => (\E ran \in invoked : invoked = {ran} /\ outcome = ran.did)

-----------------------------------------------------------------------------
(* C3 *)

\* The class the tool's output schema names.
SchemaClass(tool) == rsplit(Get(tool.output_schema))[2][1]

\* The last call ran the body of a function tool that declares an output
\* schema, and the value the body returned does not validate against it.
InvalidResult(ran) ==
    /\ CalledTool("function")
    /\ ~IsNone(RegistryTool(request.name).output_schema)
    /\ ran.did.kind = "return"
    /\ model_validate(SchemaClass(RegistryTool(request.name)), ran.did.value).kind = "raise"

\* C3: when the raw result of a function tool does not validate against the
\* declared output schema, call_tool still succeeds with the raw result.
C3_InvalidResultStillReturned ==
    \A ran \in invoked : InvalidResult(ran) => outcome = Return(ran.did.value)

-----------------------------------------------------------------------------
(* C4 *)

\* C4: no call_tool request ends with an exception leaving execute_tool: the
\* engine hands the handler a result, success or failure.
C4_NoExceptionEscapes == request.op = "call" => outcome.kind # "raise"

-----------------------------------------------------------------------------
(* C5 *)

\* Two agent tools whose sibling scopes name each other.
Mutual(a, b) ==
    /\ a.type = "agent" /\ b.type = "agent" /\ a.name # b.name
    /\ b.name \in Range(effective_tools(Get(config), a))
    /\ a.name \in Range(effective_tools(Get(config), b))

\* C5: a call_tool on an agent tool that is in a mutual-call pair ends with
\* the TurnLimitExceeded failure.
C5_MutualAgentsHitTurnLimit ==
    (CalledTool("agent") /\ "tool_name" \notin request.keys
        /\ \E i \in 1..Len(Registry) : Mutual(RegistryTool(request.name), Registry[i]))
    => IsTurnLimitExceeded(outcome)

-----------------------------------------------------------------------------
(* C6 *)

\* C6: the effective sibling-tool set computed for an agent tool never
\* contains the tool's own name.
C6_SiblingScopeExcludesSelf ==
    (request.op = "call" /\ frame.set) => request.name \notin Range(frame.tools)

-----------------------------------------------------------------------------
(* C7 *)

\* An agent tool configured with an explicit empty sibling-tool list.
EmptyScoped(tool) ==
    tool.type = "agent" /\ ~IsNone(tool.tools) /\ Len(Get(tool.tools)) = 0

\* The runtime agent is one built from the sibling scope execute_tool
\* computes for the tool.
BuiltFor(tool) ==
    agent.built /\ agent.requested = Some(effective_tools(Get(config), tool))

\* C7: for an agent tool with an explicit empty sibling-tool list the scope
\* execute_tool computes is empty, and an agent built from it has no registry
\* tool bound in any state of its run: whatever the planner tries to call, no
\* bound tool is called and no implementation body runs.
C7_EmptyScopeBindsNothing ==
    \A i \in 1..Len(Registry) :
        EmptyScoped(Registry[i])
            => /\ effective_tools(Get(config), Registry[i]) = <<>>
               /\ BuiltFor(Registry[i])
                    => (agent.tools = <<>> /\ run.calls = {} /\ invoked = {})

\* The planner of an agent built for an empty sibling-tool list tried to call
\* a registry tool, and the run ended there with the agent having no such tool.
C7_Witness ==
    /\ \E i \in 1..Len(Registry) : EmptyScoped(Registry[i]) /\ BuiltFor(Registry[i])
    /\ run.state = "done"
    /\ InRegistry(run.attempted)
    /\ run.result = ErrorString("Tool not found in agent")

-----------------------------------------------------------------------------
(* C8 *)

\* The last call was on a function tool that resolves, with a required
\* argument of the implementation missing or with an argument the
\* implementation does not declare.
BadArguments(def) ==
    \/ RequiredNames(def) \ request.keys # {}
    \/ request.keys \ ParamNames(def) # {}
BadCall ==
    /\ CalledTool("function")
    /\ Len(Resolved(RegistryTool(request.name))) = 1
    /\ BadArguments(Resolved(RegistryTool(request.name))[1])

-----------------------------------------------------------------------------
(* C9 *)

\* C9: a call_tool on a function tool whose implementation cannot be loaded
\* ends with the ResolutionError failure, and a call_tool on any other tool
\* ends as it ends in the run of the same requests from which the calls of
\* unresolvable tools are left out.  (Requests that carry an argument named
\* tool_name are set aside here: they end in call_tool itself.)
C9_UnresolvableToolIsIsolated ==
    (request.op = "call" /\ ~IsNone(config) /\ "tool_name" \notin request.keys)
        => IF Unresolvable(config, request.name)
           THEN IsResolutionError(outcome)
           ELSE outcome = ref_outcome

-----------------------------------------------------------------------------
(* C10 *)

\* C10: a list_tools request answers what the list_tools request before it
\* answered, whatever call_tool requests came in between.
C10_ListToolsRepeats ==
    [][(request'.op = "list" /\ listing.kind # "none") => listing' = listing]_vars

-----------------------------------------------------------------------------
(* C11 *)

\* C11: a list_tools request answers with one entry per tool of the server's
\* configuration, in the configuration's order, and the entry of a function
\* tool whose implementation cannot be loaded has no parameters.
C11_ListToolsIsTotal ==
    request.op = "list"
        => /\ listing.kind = "return"
           /\ Len(listing.tools) = Len(serverConfig.tools)
           /\ \A i \in 1..Len(serverConfig.tools) :
                 /\ listing.tools[i].name = serverConfig.tools[i].name
                 /\ UnresolvableTool(Some(serverConfig.tools[i]))
                       => listing.tools[i].inputSchema = <<>>

-----------------------------------------------------------------------------
(* C12 *)

\* The last call was on an agent tool and got into execute_tool.
AgentCall == CalledTool("agent") /\ "tool_name" \notin request.keys

\* The configured servers that a server list names.
ServersNamed(names) ==
    {server \in Range(Get(config).mcpServers) : server.name \in Range(names)}

\* C12: the upstream servers execute_tool computes for an agent tool are all
\* configured servers when the tool's server list is absent, none when the
\* list is empty, and exactly the configured servers the list names when it
\* is a non-empty list.
C12_UpstreamScopeIsThreeWay ==
    AgentCall
        => /\ frame.set
           /\ IsNone(RegistryTool(request.name).mcp_servers)
                 => frame.mcp_servers = Get(config).mcpServers
           /\ ~IsNone(RegistryTool(request.name).mcp_servers)
                 => /\ Range(frame.mcp_servers)
                         = ServersNamed(Get(RegistryTool(request.name).mcp_servers))
                    /\ Len(frame.mcp_servers)
                         = Cardinality(ServersNamed(Get(RegistryTool(request.name).mcp_servers)))

\* A call of an agent tool whose server list names one configured server and
\* one that is not configured got exactly the configured one.
C12_Witness ==
    /\ AgentCall
    /\ ~IsNone(RegistryTool(request.name).mcp_servers)
    /\ Len(Get(RegistryTool(request.name).mcp_servers)) = 2
    /\ Len(frame.mcp_servers) = 1
    /\ frame.mcp_servers[1].name = "files"

-----------------------------------------------------------------------------
(* C13 *)

\* The names of the registry's tools, and the sequence without one name.
RegistryNames == {Registry[i].name : i \in 1..Len(Registry)}
Without(names, name) == SelectSeq(names, LAMBDA n : n # name)

\* C13: the sibling tools execute_tool computes for an agent tool are every
\* registry tool but the tool itself, in registry order, when the tool's
\* sibling list is absent, and exactly the registry tools the list names
\* when it is a non-empty list.
C13_SiblingScopeFollowsList ==
    AgentCall
        => /\ frame.set
           /\ IsNone(RegistryTool(request.name).tools)
                 => frame.tools = Without([i \in 1..Len(Registry) |-> Registry[i].name],
                                          request.name)
           /\ (~IsNone(RegistryTool(request.name).tools)
                  /\ Len(Get(RegistryTool(request.name).tools)) > 0)
                 => /\ Range(frame.tools)
                         = RegistryNames \cap Range(Get(RegistryTool(request.name).tools))
                    /\ Len(frame.tools) = Cardinality(Range(frame.tools))

\* A call of an agent tool with a one-name sibling list got that one tool,
\* where the registry has many more.
C13_Witness ==
    /\ AgentCall
    /\ ~IsNone(RegistryTool(request.name).tools)
    /\ Len(Get(RegistryTool(request.name).tools)) = 1
    /\ frame.tools = Get(RegistryTool(request.name).tools)
    /\ Cardinality(RegistryNames) > 2

-----------------------------------------------------------------------------
(* C14 *)

\* The call ended in the read of the tool definition's max_turns.
NoTurnBound(o) ==
    o.kind = "raise" /\ o.error.exc = "AttributeError" /\ o.error.detail = "max_turns"

\* C14: a call_tool on an agent tool gets as far as the agent's run, to which
\* the turn bound of the tool's definition (or the default of 10) is handed:
\* it does not end before, where the definition's max_turns is read.
C14_TurnBoundReachesRun == AgentCall => ~NoTurnBound(outcome)

-----------------------------------------------------------------------------
(* C15 *)

\* C15: every call of a sibling tool that a running agent makes goes through
\* execute_tool for that tool's name; no call runs the implementation of a
\* function tool directly.
C15_SiblingCallsGoThroughEngine ==
    \A c \in run.calls : c.via # "implementation"

-----------------------------------------------------------------------------
(* C16 *)

\* C16: a run that is over has handed its caller a result: whatever fault
\* there was, run returned an "Error: ..." string and raised nothing.
C16_RunNeverRaises ==
    run.state = "done" => run.result.kind = "return"

-----------------------------------------------------------------------------
(* C17 *)

\* C17: no server is connected before a run starts, and when the run is over,
\* with a result or with a failure, every connection it opened is released.
C17_ConnectionsEndWithRun ==
    run.state # "running" => run.connected = {}

-----------------------------------------------------------------------------
(* C18 *)

\* What invocation i's run owns: its agent with its bindings and servers,
\* its connections and its turn counter.
Owned(as, rs, i) ==
    <<as[i].tools, as[i].mcp_servers, rs[i].connected, rs[i].turns, rs[i].calls>>

-----------------------------------------------------------------------------
(* C19 *)

\* C19: while the handler of one request is executing (or blocked), the
\* handler of any other request the server has received can start: no
\* request waits for another to finish.
C19_RequestsDoNotWait ==
    \A q \in inbox : handling # Idle => ENABLED Dispatch(q)

-----------------------------------------------------------------------------
(* C20 *)

\* C20: run(transport) chooses the transport once.  A transport other than
\* stdio and sse is rejected and nothing is ever served; stdio leads to
\* StdioServing and sse to StreamServing; and a serving process stays in its
\* serving state until it stops, never moving to the other one.
C20_TransportChosenOnce ==
    /\ [](serving.state \in ServingStates \cup {"Stopped"}
             => serving.transport \in TRANSPORTS)
    /\ [](serving.state = "StdioServing" => serving.transport = "stdio")
    /\ [](serving.state = "StreamServing" => serving.transport = "sse")
    /\ [](serving.state = "Rejected"
             => inbox = {} /\ handling = Idle /\ handled = {})
    /\ [][/\ serving.state \in ServingStates
                => /\ serving'.state \in {serving.state, "Stopped"}
                   /\ serving'.transport = serving.transport
          /\ serving.state \in {"Rejected", "Stopped"} => serving' = serving]_vars

\* The process serves over sse and has answered a request.
C20_Witness ==
    /\ serving.state = "StreamServing"
    /\ handled # {}

-----------------------------------------------------------------------------
(* C21 *)

\* C21: no ListTools and no CallTool, whatever the tool's kind and however
\* the call ends, changes the registry: the configuration execute_tool reads
\* and the one the server lists from stay as they were loaded.
C21_RegistryIsReadOnly ==
    [][config' = config /\ serverConfig' = serverConfig]_vars

\* A call of an agent tool has computed a sibling scope smaller than the
\* registry, and a ListTools has been handled as well.
C21_Witness ==
    /\ AgentCall
    /\ frame.set
    /\ Len(frame.tools) < Len(Registry)
    /\ listing # NoListing

-----------------------------------------------------------------------------
(* C22 *)

\* The directories the search looks in, and the possible modules of an agent
\* type that some directory holds with an agent class.
SearchedDirs == Range(sys_path) \cup ExistingDirs
HasAgentClass(module) ==
    \E dir \in SearchedDirs :
        /\ module \in DOMAIN Disk(dir)
        /\ \E n \in DOMAIN Disk(dir)[module] : Disk(dir)[module][n].kind = "agent"
Matching(agent_type) ==
    {i \in 1..5 : HasAgentClass(possible_modules(agent_type)[i])}

\* C22: create_agent never fails because of the agent type.  It returns an
\* instance of the agent class of the first of the modules <type>_agent,
\* agent_<type>, <type>, agents.<type>, agent_types.<type> that has one, and
\* the built-in agent when none has, whatever the type.
C22_FactoryFallsBack ==
    created.set
        => /\ created.outcome.kind # "raise"
           /\ Matching(created.agent_type) # {}
                 => /\ created.via = "custom"
                    /\ created.module =
                          possible_modules(created.agent_type)[Least(Matching(created.agent_type))]
           /\ Matching(created.agent_type) = {} => created.via = "builtin"

-----------------------------------------------------------------------------
(* C26 *)

\* C26: the search for a custom agent type leaves sys.path as it found it,
\* whether it found a class, found none, or raised.
C26_SearchPathRestored ==
    [][created'.set /\ created' # created => sys_path' = sys_path]_vars

\* The search has run, with directories it had to add to sys.path, and
\* raised; sys.path lacks the working directory as before.
C26_Witness ==
    /\ created.set
    /\ created.outcome.kind = "raise"
    /\ created.agent_type = None
    /\ Cwd \notin Range(sys_path)

-----------------------------------------------------------------------------
(* C23 *)

\* The type a parameter declares, and the tag the precedence gives it.
DeclaredType(annotation) ==
    IF annotation \in PostponedAnnotations
    THEN CHOOSE t \in {"int", "str", "float", "dict"} : Postponed(t) = annotation
    ELSE annotation

ExpectedTag(type) ==
    IF type \in {"empty", "str"} THEN "string"
    ELSE IF type = "int" THEN "integer"
    ELSE IF type = "float" THEN "number"
    ELSE type

\* The implementation list_tools found for a function tool.
ListedImplementation(tool) ==
    GetAttr(sys_modules[rsplit(Get(tool.implementation))[1]],
            rsplit(Get(tool.implementation))[1],
            rsplit(Get(tool.implementation))[2][1])

ExpectedSchema(tool) ==
    IF tool.type = "agent" THEN << <<"input", "string">> >>
    ELSE [j \in 1..Len(ListedImplementation(tool).params) |->
            << ListedImplementation(tool).params[j].name,
               ExpectedTag(DeclaredType(ListedImplementation(tool).params[j].annotation)) >>]

\* C23: the schema of a function tool gives each parameter of the
\* implementation the tag of its declared type (none or str: string; int:
\* integer; float: number; any other: the type's name), the schema of an agent
\* tool is the one parameter input of type string, and deriving a schema
\* never fails on a parameter's declared type.
C23_SchemaFollowsPrecedence ==
    request.op = "list"
        => /\ listing.kind = "raise" => listing.error.detail # "__name__"
           /\ listing.kind = "return"
                 => \A i \in 1..Len(listing.tools) :
                       listing.tools[i].inputSchema = ExpectedSchema(serverConfig.tools[i])

-----------------------------------------------------------------------------
(* C24 *)

\* The names list_tools lists: those of the server's configuration.
ListedNames == {serverConfig.tools[i].name : i \in 1..Len(serverConfig.tools)}

\* The call found no registry to look in.
NoRegistry(o) ==
    o.kind = "raise" /\ o.error.exc = "AttributeError" /\ o.error.detail = "tools"

\* C24: list_tools and call_tool of a server read one registry: a call_tool
\* on a name that list_tools lists finds the tool, and every name call_tool
\* finds is a name that list_tools lists.
C24_OneRegistry ==
    /\ (request.op = "call" /\ request.name \in ListedNames
            /\ "tool_name" \notin request.keys)
          => ~IsNotFound(outcome) /\ ~NoRegistry(outcome)
    /\ (request.op = "call" /\ InRegistry(request.name)) => request.name \in ListedNames

-----------------------------------------------------------------------------
(* C25 *)

\* The last turn of the run called a tool bound to an agent sibling.
AgentSiblingCalled ==
    /\ run.state = "running"
    /\ Named(agent.tools, run.attempted) # {}
    /\ agent.tools[Greatest(Named(agent.tools, run.attempted))].via = "invoke_agent"

\* C25: when a running agent calls an agent sibling with an input, the call
\* enters execute_tool for the sibling with the input bound as its input
\* argument, and what the sibling's run gives is what the caller receives:
\* the call does not end before execute_tool's body, on its arguments.
C25_AgentSiblingIsInvoked ==
    AgentSiblingCalled => run.returned # TooManyPositional

====
